---- MODULE Spec2Model ----
(***************************************************************************)
(* The Concerto cloud provider's TCP load-balancer operations              *)
(* (EnsureTCPLoadBalancer, UpdateTCPLoadBalancer,                          *)
(* EnsureTCPLoadBalancerDeleted) over the Concerto REST API client.        *)
(*                                                                         *)
(* One caller runs one provider operation at a time.  Every transport call *)
(* (GET / POST / DELETE) is one atomic step: the remote answers (or the    *)
(* call fails), and the client code up to the next transport call runs.    *)
(* Go pointers and optional values are sequences of length at most one     *)
(* (<<>> is nil); Go errors are sequences of strings (<<>> is nil).        *)
(***************************************************************************)
EXTENDS Integers, Sequences, FiniteSets, TLC

\* Longest list of host names a caller passes.
MaxHosts == 2
\* Number of load-balancer ids the remote system can hand out at one time.
MaxLBs == 2

Callers == {"c1", "c2"}
\* The callers that run operations one after the other.
SeqCallers == {"c1"}

LBNames == {"lbA", "lbB"}
\* The load balancer a caller owns: "lbB" is another owner's load balancer.
OwnName(c) == IF c = "c1" THEN "lbA" ELSE "lbB"
\* The names a caller passes: the second caller may also pass the name of
\* the first caller's load balancer.
CallNames(c) == IF c \in SeqCallers THEN {OwnName(c)} ELSE LBNames
LBIds == 1..MaxLBs

\* The remote system's instance listing (GET /kaas/ships), as ship records.
Ships ==
    << [id |-> "i1", fqdn |-> "h1", public_ip |-> "ip1"],
       [id |-> "i2", fqdn |-> "h2", public_ip |-> "ip2"],
       [id |-> "i3", fqdn |-> "h3", public_ip |-> "ip3"] >>

\* Host names a caller may pass; "hx" names no instance.
HostNames == {"h1", "h2", "h3", "hx"}
IPOrder == <<"ip1", "ip2", "ip3">>
IPs == {IPOrder[i] : i \in 1..Len(IPOrder)}

HostLists == UNION {[1..n -> HostNames] : n \in 0..MaxHosts}

ServicePort == [Port |-> 80, NodePort |-> 30080]
OtherPort == [Port |-> 443, NodePort |-> 30443]
\* The loadBalancerIP, ports and affinityType a caller passes to
\* EnsureTCPLoadBalancer: the supported ones, each unsupported one alone, and
\* all unsupported together.
EnsureOptions ==
    { [loadBalancerIP |-> <<>>, ports |-> <<ServicePort>>, affinityType |-> "None"],
      [loadBalancerIP |-> <<>>, ports |-> <<ServicePort>>, affinityType |-> "ClientIP"],
      [loadBalancerIP |-> <<"10.0.0.1">>, ports |-> <<ServicePort>>, affinityType |-> "None"],
      [loadBalancerIP |-> <<>>, ports |-> <<>>, affinityType |-> "None"],
      [loadBalancerIP |-> <<>>, ports |-> <<ServicePort, OtherPort>>, affinityType |-> "None"],
      [loadBalancerIP |-> <<"10.0.0.1">>, ports |-> <<>>, affinityType |-> "ClientIP"] }

Range(s) == {s[i] : i \in 1..Len(s)}

-----------------------------------------------------------------------------
\* Error values.
NoErr == <<>>
TransportError == <<"transport error">>
DecodeError == <<"json: cannot unmarshal">>
InstanceNotFound == <<"instance not found">>
LoadBalancerDeleteError == <<"Could not delete load balancer">>
LoadBalancerRegisterInstanceError == <<"Could not register instance with load balancer">>
LoadBalancerDeregisterInstanceError == <<"Could not deregister instance from load balancer">>
LoadBalancerUnsupportedAffinityError == <<"Unsupported load balancer affinity">>
LoadBalancerUnsupportedExternalIPError == <<"externalIP cannot be specified for Concerto Load Balancer">>
LoadBalancerUnsupportedNumberOfPortsError == <<"Concerto Load Balancer only supports one single port">>

HttpGetLoadBalancersError(status) == <<"HTTP", ToString(status), "when getting '/kaas/load_balancers'">>
HttpCreateLoadBalancerError(status, name) == <<"HTTP", ToString(status), "when creating load balancer", name>>
LoadBalancerNotFoundError(id) == <<"Load balancer not found", ToString(id)>>
NodeNotFoundError(ip, id) == <<"Node not found in load balancer", ip, ToString(id)>>
NamesToIPsError(err) == <<"Error while converting names to IP addresses:">> \o err
CouldNotFindInstanceError(name) == <<"Could not find instance:", name>>

-----------------------------------------------------------------------------
VARIABLES
    lbs,    \* remote: load-balancer id -> <<>> (free) or <<load-balancer record>>
    nodes,  \* remote: load-balancer id -> set of registered addresses
    st      \* caller -> frame of the provider operation it runs

vars == <<lbs, nodes, st>>

-----------------------------------------------------------------------------
\* The remote system (Concerto API) behind the transport.

\* A payload: a JSON document that parses (ok) to val, or one that does not.
Json(v) == [ok |-> TRUE, val |-> v]
Garbage == [ok |-> FALSE, val |-> <<>>]

\* The id the remote gives a member node registered for an address.
NodeIdOf(ip) == CASE ip = "ip1" -> "n1" [] ip = "ip2" -> "n2" [] OTHER -> "n3"
\* The fully qualified name the remote gives a load balancer.
RemoteFqdn(name) == IF name = "lbA" THEN "lbA.concerto" ELSE "lbB.concerto"

LbIdOrder == [i \in 1..MaxLBs |-> i]
LbListing ==
    LET ids == SelectSeq(LbIdOrder, LAMBDA i : lbs[i] # <<>>)
    IN  [k \in 1..Len(ids) |-> lbs[ids[k]][1]]
NodeListing(id) ==
    LET ips == SelectSeq(IPOrder, LAMBDA ip : ip \in nodes[id])
    IN  [k \in 1..Len(ips) |-> [ID |-> NodeIdOf(ips[k]), IP |-> ips[k]]]

FreeLbIds == {i \in LBIds : lbs[i] = <<>>}
Min(S) == CHOOSE x \in S : \A y \in S : x <= y

Response(body, status) == [body |-> body, status |-> status, err |-> NoErr]
Outcome(resp, l, n) == [resp |-> resp, lbs |-> l, nodes |-> n, fault |-> FALSE]

\* A response that is not the remote's answer to the request: the transport
\* fails, or the remote answers with an error status; remote state is untouched.
FaultResponses ==
    { [body |-> Garbage, status |-> 0 - 1, err |-> TransportError],
      Response(Garbage, 500),
      Response(Json(<<>>), 500),
      Response(Garbage, 404) }
Faults == {[resp |-> r, lbs |-> lbs, nodes |-> nodes, fault |-> TRUE] : r \in FaultResponses}

RemoteGet(res, id) ==
    CASE res = "ships" -> {Outcome(Response(Json(Ships), 200), lbs, nodes)}
      [] res = "load_balancers" -> {Outcome(Response(Json(LbListing), 200), lbs, nodes)}
      [] OTHER ->
            IF id \in LBIds /\ lbs[id] # <<>>
            THEN {Outcome(Response(Json(NodeListing(id)), 200), lbs, nodes)}
            ELSE {Outcome(Response(Garbage, 404), lbs, nodes)}

\* POST /kaas/load_balancers with load-balancer record `body`, or
\* POST /kaas/load_balancers/<id>/nodes with node record `body`.
RemotePost(res, id, body) ==
    IF res = "load_balancers"
    THEN IF FreeLbIds = {}
         THEN {Outcome(Response(Garbage, 500), lbs, nodes)}
         ELSE LET new == Min(FreeLbIds)
                  rec == [body EXCEPT !.Id = new, !.FQDN = RemoteFqdn(body.Name)]
              IN  {Outcome(Response(Json(<<rec>>), 201),
                           [lbs EXCEPT ![new] = <<rec>>],
                           [nodes EXCEPT ![new] = {}])}
    ELSE IF id \in LBIds /\ lbs[id] # <<>>
         THEN {Outcome(Response(Json(<<[ID |-> NodeIdOf(body.IP), IP |-> body.IP]>>), 201),
                       lbs, [nodes EXCEPT ![id] = @ \cup {body.IP}])}
         ELSE {Outcome(Response(Garbage, 404), lbs, nodes)}

\* DELETE /kaas/load_balancers/<id>, or DELETE /kaas/load_balancers/<id>/nodes/<nodeId>.
RemoteDelete(res, id, nodeId) ==
    IF res = "load_balancers"
    THEN IF id \in LBIds /\ lbs[id] # <<>>
         THEN {Outcome(Response(Json(<<>>), s),
                       [lbs EXCEPT ![id] = <<>>], [nodes EXCEPT ![id] = {}]) : s \in {200, 204}}
         ELSE {Outcome(Response(Garbage, 404), lbs, nodes)}
    ELSE IF id \in LBIds /\ lbs[id] # <<>> /\ \E ip \in nodes[id] : NodeIdOf(ip) = nodeId
         THEN {Outcome(Response(Json(<<>>), s),
                       lbs, [nodes EXCEPT ![id] = {ip \in @ : NodeIdOf(ip) # nodeId}]) : s \in {200, 204}}
         ELSE {Outcome(Response(Garbage, 404), lbs, nodes)}

\* restService.Get / Post / Delete: every way one transport call can end.
Get(res, id) == RemoteGet(res, id) \cup Faults
Post(res, id, body) == RemotePost(res, id, body) \cup Faults
Delete(res, id, nodeId) == RemoteDelete(res, id, nodeId) \cup Faults

-----------------------------------------------------------------------------
\* The REST API client (concertoAPIServiceREST): each operator is the
\* client function applied to the response of the one transport call it makes.

\* json.Unmarshal of a payload.
Unmarshal(body) ==
    IF body.ok THEN [val |-> body.val, err |-> NoErr] ELSE [val |-> <<>>, err |-> DecodeError]

\* The first of the matching elements m of a slice, as an optional value:
\* a range loop that returns on its first match.
FirstMatch(m) == IF m = <<>> THEN <<>> ELSE <<m[1]>>

ShipToInstance(s) == [Id |-> s.id, Name |-> s.fqdn, PublicIP |-> s.public_ip]

\* isNil: whether the returned slice is nil.  `instances` is declared without
\* a value and only grows by append, so it is nil until a ship is appended.
GetInstanceList(r) ==
    IF r.err # NoErr THEN [val |-> <<>>, isNil |-> TRUE, err |-> r.err]
    ELSE IF r.status = 404 THEN [val |-> <<>>, isNil |-> TRUE, err |-> NoErr]
    ELSE LET u == Unmarshal(r.body)
         IN  IF u.err # NoErr THEN [val |-> <<>>, isNil |-> TRUE, err |-> u.err]
             ELSE [val |-> [k \in 1..Len(u.val) |-> ShipToInstance(u.val[k])],
                   isNil |-> Len(u.val) = 0, err |-> NoErr]

\* Variant: an absent name gives the zero instance and no error.
GetInstanceByName_AbsentIsZero(r, name) ==
    LET l == GetInstanceList(r)
        m == FirstMatch(SelectSeq(l.val, LAMBDA i : i.Name = name))
    IN  IF l.err # NoErr THEN [val |-> <<>>, err |-> l.err]
        ELSE IF m # <<>> THEN [val |-> m, err |-> NoErr]
        ELSE [val |-> <<[Id |-> "", Name |-> "", PublicIP |-> ""]>>, err |-> NoErr]

GetInstanceByName(r, name) ==
    LET l == GetInstanceList(r)
        m == FirstMatch(SelectSeq(l.val, LAMBDA i : i.Name = name))
    IN  IF l.err # NoErr THEN [val |-> <<>>, err |-> l.err]
        ELSE IF m # <<>> THEN [val |-> m, err |-> NoErr]
        ELSE [val |-> <<>>, err |-> InstanceNotFound]

\* Variant: the first listed instance is returned, whatever its address.
GetInstanceByIP_FirstListed(r, ip) ==
    LET l == GetInstanceList(r)
        m == FirstMatch(l.val)
    IN  IF l.err # NoErr THEN [val |-> <<>>, err |-> l.err]
        ELSE IF m # <<>> THEN [val |-> m, err |-> NoErr]
        ELSE [val |-> <<>>, err |-> InstanceNotFound]

GetInstanceByIP(r, ip) ==
    LET l == GetInstanceList(r)
        m == FirstMatch(SelectSeq(l.val, LAMBDA i : i.PublicIP = ip))
    IN  IF l.err # NoErr THEN [val |-> <<>>, err |-> l.err]
        ELSE IF m # <<>> THEN [val |-> m, err |-> NoErr]
        ELSE [val |-> <<>>, err |-> InstanceNotFound]

\* Variant: only status 404 is looked at, as in the instance listing.
GetLoadBalancerList_Only404(r) ==
    IF r.err # NoErr THEN [val |-> <<>>, err |-> r.err]
    ELSE IF r.status = 404 THEN [val |-> <<>>, err |-> HttpGetLoadBalancersError(r.status)]
    ELSE LET u == Unmarshal(r.body)
         IN  IF u.err # NoErr THEN [val |-> <<>>, err |-> u.err]
             ELSE [val |-> u.val, err |-> NoErr]

GetLoadBalancerList(r) ==
    IF r.err # NoErr THEN [val |-> <<>>, err |-> r.err]
    ELSE IF r.status >= 400 THEN [val |-> <<>>, err |-> HttpGetLoadBalancersError(r.status)]
    ELSE LET u == Unmarshal(r.body)
         IN  IF u.err # NoErr THEN [val |-> <<>>, err |-> u.err]
             ELSE [val |-> u.val, err |-> NoErr]

\* Variant: the first listed load balancer is returned, whatever its name.
GetLoadBalancerByName_FirstListed(r, name) ==
    LET l == GetLoadBalancerList(r)
    IN  IF l.err # NoErr THEN [val |-> <<>>, err |-> l.err]
        ELSE [val |-> FirstMatch(l.val), err |-> NoErr]

\* Variant: an absent name is an error, as for instances.
GetLoadBalancerByName_AbsentIsError(r, name) ==
    LET l == GetLoadBalancerList(r)
        m == FirstMatch(SelectSeq(l.val, LAMBDA lb : lb.Name = name))
    IN  IF l.err # NoErr THEN [val |-> <<>>, err |-> l.err]
        ELSE IF m # <<>> THEN [val |-> m, err |-> NoErr]
        ELSE [val |-> <<>>, err |-> InstanceNotFound]

\* Returns (nil, nil) when no load balancer has the name.
GetLoadBalancerByName(r, name) ==
    LET l == GetLoadBalancerList(r)
    IN  IF l.err # NoErr THEN [val |-> <<>>, err |-> l.err]
        ELSE [val |-> FirstMatch(SelectSeq(l.val, LAMBDA lb : lb.Name = name)), err |-> NoErr]

\* Variant: every 2xx status counts as a successful delete.
DeleteLoadBalancerById_Any2xx(r) ==
    IF r.err # NoErr THEN r.err
    ELSE IF r.status >= 200 /\ r.status < 300 THEN NoErr
    ELSE LoadBalancerDeleteError

\* Variant: only status 200 counts as a successful delete.
DeleteLoadBalancerById_Only200(r) ==
    IF r.err # NoErr THEN r.err
    ELSE IF r.status = 200 THEN NoErr
    ELSE LoadBalancerDeleteError

DeleteLoadBalancerById(r) ==
    IF r.err # NoErr THEN r.err
    ELSE IF r.status = 200 \/ r.status = 204 THEN NoErr
    ELSE LoadBalancerDeleteError

GetLoadBalancerNodes(r, loadBalancerId) ==
    IF r.err # NoErr THEN [val |-> <<>>, err |-> r.err]
    ELSE IF r.status = 404 THEN [val |-> <<>>, err |-> LoadBalancerNotFoundError(loadBalancerId)]
    ELSE LET u == Unmarshal(r.body)
         IN  IF u.err # NoErr THEN [val |-> <<>>, err |-> u.err]
             ELSE [val |-> u.val, err |-> NoErr]

\* Variant: the addresses of the nodes are not collected.
GetLoadBalancerNodesAsIPs_NoAddress(r, loadBalancerId) ==
    LET l == GetLoadBalancerNodes(r, loadBalancerId)
    IN  IF l.err # NoErr THEN [val |-> <<>>, err |-> l.err]
        ELSE [val |-> <<>>, err |-> NoErr]

GetLoadBalancerNodesAsIPs(r, loadBalancerId) ==
    LET l == GetLoadBalancerNodes(r, loadBalancerId)
    IN  IF l.err # NoErr THEN [val |-> <<>>, err |-> l.err]
        ELSE [val |-> [k \in 1..Len(l.val) |-> l.val[k].IP], err |-> NoErr]

\* Variant: an error of the node listing is dropped and a node without id is
\* returned.
GetNodeByIP_ErrorDropped(r, loadBalancerId, ip) ==
    LET l == GetLoadBalancerNodes(r, loadBalancerId)
        m == FirstMatch(SelectSeq(l.val, LAMBDA n : n.IP = ip))
    IN  IF m # <<>> THEN [val |-> m, err |-> NoErr]
        ELSE [val |-> <<[ID |-> "", IP |-> ip]>>, err |-> NoErr]

\* Variant: the first listed node is returned, whatever its address.
GetNodeByIP_FirstListed(r, loadBalancerId, ip) ==
    LET l == GetLoadBalancerNodes(r, loadBalancerId)
        m == FirstMatch(l.val)
    IN  IF l.err # NoErr THEN [val |-> <<>>, err |-> l.err]
        ELSE IF m # <<>> THEN [val |-> m, err |-> NoErr]
        ELSE [val |-> <<>>, err |-> NodeNotFoundError(ip, loadBalancerId)]

GetNodeByIP(r, loadBalancerId, ip) ==
    LET l == GetLoadBalancerNodes(r, loadBalancerId)
        m == FirstMatch(SelectSeq(l.val, LAMBDA n : n.IP = ip))
    IN  IF l.err # NoErr THEN [val |-> <<>>, err |-> l.err]
        ELSE IF m # <<>> THEN [val |-> m, err |-> NoErr]
        ELSE [val |-> <<>>, err |-> NodeNotFoundError(ip, loadBalancerId)]

\* Variant: the instance's id is posted in place of its address.
toNode_IdAsAddress(instance) == [ID |-> "", IP |-> instance.Id]

\* The node record posted for an instance; its ID is left empty.
toNode(instance) == [ID |-> "", IP |-> instance.PublicIP]

\* Variant: status 200 is taken for a success too.
registerInstanceWithLoadBalancer_Accepts200(r) ==
    IF r.err # NoErr THEN r.err
    ELSE IF r.status # 201 /\ r.status # 200 THEN LoadBalancerRegisterInstanceError
    ELSE NoErr

\* Variant: the response status of the POST is not looked at.
registerInstanceWithLoadBalancer_StatusIgnored(r) == r.err

\* Result of the POST made by registerInstanceWithLoadBalancer.
registerInstanceWithLoadBalancer(r) ==
    IF r.err # NoErr THEN r.err
    ELSE IF r.status # 201 THEN LoadBalancerRegisterInstanceError
    ELSE NoErr

\* Variant: every status below 400 is taken for a success.
deregisterInstanceFromLoadBalancer_Below400(r) ==
    IF r.err # NoErr THEN r.err
    ELSE IF r.status < 400 THEN NoErr
    ELSE LoadBalancerDeregisterInstanceError

\* Result of the DELETE made by deregisterInstanceFromLoadBalancer.
deregisterInstanceFromLoadBalancer(r) ==
    IF r.err # NoErr THEN r.err
    ELSE IF r.status = 200 \/ r.status = 204 THEN NoErr
    ELSE LoadBalancerDeregisterInstanceError

\* The record CreateLoadBalancer posts.
NewLoadBalancer(name, port, nodePort) ==
    [Id |-> 0, Name |-> name, FQDN |-> name, Port |-> port, NodePort |-> nodePort,
     Protocol |-> "tcp"]

\* Variant: the response body is not decoded into the posted record.
CreateLoadBalancer_NotDecoded(r, name, port, nodePort) ==
    IF r.err # NoErr THEN [val |-> <<>>, err |-> r.err]
    ELSE IF r.status # 201 THEN [val |-> <<>>, err |-> HttpCreateLoadBalancerError(r.status, name)]
    ELSE [val |-> <<NewLoadBalancer(name, port, nodePort)>>, err |-> NoErr]

\* CreateLoadBalancer applied to the POST's response: the decoded body
\* overwrites the posted record.
CreateLoadBalancer(r, name, port, nodePort) ==
    IF r.err # NoErr THEN [val |-> <<>>, err |-> r.err]
    ELSE IF r.status # 201 THEN [val |-> <<>>, err |-> HttpCreateLoadBalancerError(r.status, name)]
    ELSE LET u == Unmarshal(r.body)
         IN  IF u.err # NoErr THEN [val |-> <<>>, err |-> u.err]
             ELSE IF u.val = <<>> THEN [val |-> <<NewLoadBalancer(name, port, nodePort)>>, err |-> NoErr]
             ELSE [val |-> <<u.val[1]>>, err |-> NoErr]

-----------------------------------------------------------------------------
\* The provider (ConcertoCloud).

toStatus(lb) == [Ingress |-> <<[Hostname |-> lb.FQDN]>>]

\* Elements of a that are not elements of b, in a's order.
subtractStringArrays(a, b) == SelectSeq(a, LAMBDA x : x \notin Range(b))

\* Variant: a name without instance is skipped.
RECURSIVE LookupHosts_SkipMissing(_, _)
LookupHosts_SkipMissing(instances, hosts) ==
    IF hosts = <<>> THEN [val |-> <<>>, err |-> NoErr]
    ELSE LET m == FirstMatch(SelectSeq(instances, LAMBDA i : i.Name = hosts[1]))
             rest == LookupHosts_SkipMissing(instances, Tail(hosts))
         IN  IF m = <<>> \/ rest.err # NoErr THEN rest
             ELSE [val |-> <<m[1].PublicIP>> \o rest.val, err |-> NoErr]

\* Variant: the lookup stops at a name without instance and returns the
\* addresses found so far.
RECURSIVE LookupHosts_StopAtMissing(_, _)
LookupHosts_StopAtMissing(instances, hosts) ==
    IF hosts = <<>> THEN [val |-> <<>>, err |-> NoErr]
    ELSE LET m == FirstMatch(SelectSeq(instances, LAMBDA i : i.Name = hosts[1]))
             rest == LookupHosts_StopAtMissing(instances, Tail(hosts))
         IN  IF m = <<>> THEN [val |-> <<>>, err |-> NoErr]
             ELSE [val |-> <<m[1].PublicIP>> \o rest.val, err |-> NoErr]

RECURSIVE LookupHosts(_, _)
LookupHosts(instances, hosts) ==
    IF hosts = <<>> THEN [val |-> <<>>, err |-> NoErr]
    ELSE LET m == FirstMatch(SelectSeq(instances, LAMBDA i : i.Name = hosts[1]))
             rest == LookupHosts(instances, Tail(hosts))
         IN  IF m = <<>> THEN [val |-> <<>>, err |-> CouldNotFindInstanceError(hosts[1])]
             ELSE IF rest.err # NoErr THEN rest
             ELSE [val |-> <<m[1].PublicIP>> \o rest.val, err |-> NoErr]

\* Variant: the error of the instance listing is returned as it is.
hostsNamesToIPs_ErrorUnwrapped(r, hosts) ==
    LET l == GetInstanceList(r)
    IN  IF l.err # NoErr THEN [val |-> <<>>, err |-> l.err]
        ELSE LookupHosts(l.val, hosts)

hostsNamesToIPs(r, hosts) ==
    LET l == GetInstanceList(r)
    IN  IF l.err # NoErr THEN [val |-> <<>>, err |-> NamesToIPsError(l.err)]
        ELSE LookupHosts(l.val, hosts)

\* Variant: the affinity check is missing.
EnsureRejection_NoAffinityCheck(loadBalancerIP, ports, affinityType) ==
    IF loadBalancerIP # <<>> THEN LoadBalancerUnsupportedExternalIPError
    ELSE IF Len(ports) # 1 THEN LoadBalancerUnsupportedNumberOfPortsError
    ELSE NoErr

\* The capability checks EnsureTCPLoadBalancer makes before any remote call.
EnsureRejection(loadBalancerIP, ports, affinityType) ==
    IF affinityType # "None" THEN LoadBalancerUnsupportedAffinityError
    ELSE IF loadBalancerIP # <<>> THEN LoadBalancerUnsupportedExternalIPError
    ELSE IF Len(ports) # 1 THEN LoadBalancerUnsupportedNumberOfPortsError
    ELSE NoErr

\* Variant: every current node is removed.
NodesToRemove_AllCurrent(currentNodes, wantedNodes) == currentNodes
\* Variant: every wanted node is added again.
NodesToAdd_AllWanted(currentNodes, wantedNodes) == wantedNodes
\* Variant: the arguments of the second difference are those of the first.
NodesToAdd_SameAsRemove(currentNodes, wantedNodes) == subtractStringArrays(currentNodes, wantedNodes)

NodesToRemove(currentNodes, wantedNodes) == subtractStringArrays(currentNodes, wantedNodes)
NodesToAdd(currentNodes, wantedNodes) == subtractStringArrays(wantedNodes, currentNodes)

-----------------------------------------------------------------------------
\* Frames: the state of one caller's provider operation.

NoCall ==
    [op |-> "none", name |-> "", hosts |-> <<>>, loadBalancerIP |-> <<>>,
     ports |-> <<>>, affinityType |-> "None"]

\* Whether a transport call changes remote state when it succeeds.
Mutating(req) == req.verb \in {"POST", "DELETE"}
MutatingCalls(log) == SelectSeq(log, Mutating)

\* The steps of the two range loops that register and deregister.
ApplySteps == {"D_find", "D_delete", "R_find", "R_post"}

\* What is remembered of a caller's previous, finished operation:
\*   op, name, hosts   what was called
\*   result   "ok" (nil error and no fault met) or "failed" (an error)
\*   phase    "apply" when it returned from a register or deregister step
\*   created  whether it created a load balancer
\*   mutated  whether it issued a POST or DELETE
\*   status   the status it returned
\* An operation that returned from the capability checks, or returned a nil
\* error although a fault was met, is not remembered.
NoPrev ==
    [op |-> "none", name |-> "", hosts |-> <<>>, result |-> "none", phase |-> "none",
     created |-> FALSE, mutated |-> FALSE, status |-> <<>>]
Summary(f) ==
    IF f.at = "E_check" \/ (f.err = NoErr /\ f.faulted) THEN NoPrev
    ELSE [op |-> f.call.op, name |-> f.call.name, hosts |-> f.call.hosts,
          result |-> IF f.err # NoErr THEN "failed" ELSE "ok",
          phase |-> IF f.at \in ApplySteps THEN "apply" ELSE "pre",
          created |-> f.created, mutated |-> MutatingCalls(f.log) # <<>>,
          status |-> f.status]
\* The previous operation as the next one remembers it: kept when it had the
\* same load-balancer name and hosts.
Related(last, call) ==
    IF last.name = call.name /\ last.hosts = call.hosts THEN last ELSE NoPrev

\* Ids of the load balancers of a name, and the addresses registered with them.
LbsNamed(name) == {i \in LBIds : lbs[i] # <<>> /\ lbs[i][1].Name = name}
Members(name) == UNION {nodes[i] : i \in LbsNamed(name)}

\* No transport call was made yet.
NoResponse == [body |-> Garbage, status |-> 0, err |-> NoErr]

IdleFrame ==
    [pc |-> "idle", call |-> NoCall,
     elb |-> <<>>,            \* EnsureTCPLoadBalancer's lb
     lb |-> <<>>,             \* lb of UpdateTCPLoadBalancer, createTCPLoadBalancer, EnsureTCPLoadBalancerDeleted
     nodesToRemove |-> <<>>,  \* addresses DeregisterInstancesFromLoadBalancer still ranges over
     nodesToAdd |-> <<>>,     \* addresses RegisterInstancesWithLoadBalancer still ranges over
     node |-> <<>>,           \* node found by GetNodeByIP
     instance |-> <<>>,       \* instance found by GetInstanceByIP
     err |-> NoErr, status |-> <<>>,
     at |-> "idle",           \* the step the operation returned from
     created |-> FALSE,       \* whether createTCPLoadBalancer created a load balancer
     log |-> <<>>,            \* transport calls of the operation (the mock's receivedCalls)
     step |-> "idle",         \* the step that made the last transport call
     faulted |-> FALSE,       \* whether a transport call of the operation met a fault
     lastFault |-> FALSE,     \* whether the last transport call met a fault
     existed0 |-> FALSE,      \* whether a load balancer of the name existed when the operation began
     m0 |-> {},               \* its membership when the operation began
     overlap |-> FALSE,       \* whether a transport call was made while another caller's operation was under way
     resp |-> NoResponse,     \* the response of the last transport call (client calls)
     ret |-> <<>>,            \* the value a client call returned
     prev |-> NoPrev,         \* the previous operation (see Related)
     last |-> NoPrev]         \* the operation that just returned, while idle

NewFrame(c, call) ==
    [IdleFrame EXCEPT !.call = call, !.prev = Related(st[c].last, call),
                      !.existed0 = LbsNamed(call.name) # {}, !.m0 = Members(call.name)]

Crashed == \E c \in Callers : st[c].pc = "panic"
CanCall(c) == st[c].pc = "idle" /\ ~Crashed
At(c, label) == st[c].pc = label /\ ~Crashed

Request(verb, res, id, arg) == [verb |-> verb, res |-> res, lb |-> id, arg |-> arg]
\* Another caller's operation has made transport calls and has not returned.
OtherUnderWay(f) ==
    \E d \in Callers :
        /\ st[d].call.name # f.call.name
        /\ st[d].pc \notin {"idle", "done", "panic"}
        /\ st[d].log # <<>>
Logged(f, req, o) ==
    [f EXCEPT !.log = Append(@, req), !.step = f.pc, !.faulted = @ \/ o.fault,
              !.lastFault = o.fault, !.overlap = @ \/ OtherUnderWay(f)]

\* The operation returns err to its caller; EnsureTCPLoadBalancer returns
\* toStatus(lb) with a nil error.
Done(f, err) ==
    [f EXCEPT !.pc = "done", !.err = err, !.at = f.pc,
              !.status = IF err = NoErr /\ f.call.op = "Ensure" THEN <<toStatus(f.elb[1])>> ELSE <<>>]

\* A nil pointer is dereferenced: the Go runtime panics.
Panic(f) == [f EXCEPT !.pc = "panic"]

\* Variant: registration runs before deregistration.
Loops_RegisterFirst(f) ==
    IF f.nodesToAdd # <<>> THEN [f EXCEPT !.pc = "R_find"]
    ELSE IF f.nodesToRemove # <<>> THEN [f EXCEPT !.pc = "D_find"]
    ELSE Done(f, NoErr)

\* DeregisterInstancesFromLoadBalancer, then RegisterInstancesWithLoadBalancer:
\* where the two range loops stand, or the return when both are exhausted.
Loops(f) ==
    IF f.nodesToRemove # <<>> THEN [f EXCEPT !.pc = "D_find"]
    ELSE IF f.nodesToAdd # <<>> THEN [f EXCEPT !.pc = "R_find"]
    ELSE Done(f, NoErr)

Remote(o) == lbs' = o.lbs /\ nodes' = o.nodes
Frame(c, f) == st' = [st EXCEPT ![c] = f]

-----------------------------------------------------------------------------
\* The remote holds no load balancer, or already holds "lbB".
OtherLb ==
    [Id |-> 1, Name |-> "lbB", FQDN |-> RemoteFqdn("lbB"), Port |-> 80, NodePort |-> 30080,
     Protocol |-> "tcp"]
OtherNodes == {"ip1", "ip3"}

Init ==
    /\ \E other \in BOOLEAN :
          /\ lbs = [i \in LBIds |-> IF other /\ i = 1 THEN <<OtherLb>> ELSE <<>>]
          /\ nodes = [i \in LBIds |-> IF other /\ i = 1 THEN OtherNodes ELSE {}]
    /\ st = [c \in Callers |-> IdleFrame]

\* EnsureTCPLoadBalancer is called: the capability checks.
CallEnsure(c) ==
    /\ CanCall(c)
    /\ \E name \in CallNames(c), hosts \in HostLists, opt \in EnsureOptions :
          LET call == [op |-> "Ensure", name |-> name, hosts |-> hosts,
                       loadBalancerIP |-> opt.loadBalancerIP, ports |-> opt.ports,
                       affinityType |-> opt.affinityType]
              f == NewFrame(c, call)
              rej == EnsureRejection(call.loadBalancerIP, call.ports, call.affinityType)
          IN  Frame(c, IF rej # NoErr THEN Done([f EXCEPT !.pc = "E_check"], rej)
                       ELSE [f EXCEPT !.pc = "E_lookup"])
    /\ UNCHANGED <<lbs, nodes>>

\* EnsureTCPLoadBalancer: check previous existence.
EnsureLookup(c) ==
    /\ At(c, "E_lookup")
    /\ \E o \in Get("load_balancers", 0) :
          /\ Remote(o)
          /\ LET f == Logged(st[c], Request("GET", "load_balancers", 0, ""), o)
                 r == GetLoadBalancerByName(o.resp, f.call.name)
             IN  Frame(c, IF r.err # NoErr THEN Done(f, r.err)
                          ELSE IF r.val = <<>> THEN [f EXCEPT !.pc = "C_create"]
                          ELSE [f EXCEPT !.elb = r.val, !.pc = "U_lookup"])

\* createTCPLoadBalancer: create the load balancer.
CreateLB(c) ==
    /\ At(c, "C_create")
    /\ LET call == st[c].call
           port == call.ports[1].Port
           nodePort == call.ports[1].NodePort
       IN  \E o \in Post("load_balancers", 0, NewLoadBalancer(call.name, port, nodePort)) :
              /\ Remote(o)
              /\ LET f == Logged(st[c], Request("POST", "load_balancers", 0, call.name), o)
                     r == CreateLoadBalancer(o.resp, call.name, port, nodePort)
                     g == [f EXCEPT !.lb = r.val, !.elb = r.val, !.created = TRUE]
                 IN  Frame(c, IF r.err # NoErr THEN Done(f, r.err)
                              ELSE IF Len(call.hosts) > 0 THEN [g EXCEPT !.pc = "C_resolve"]
                              ELSE Done(g, NoErr))

\* createTCPLoadBalancer: resolve the hosts, then register them.
CreateResolve(c) ==
    /\ At(c, "C_resolve")
    /\ \E o \in Get("ships", 0) :
          /\ Remote(o)
          /\ LET f == Logged(st[c], Request("GET", "ships", 0, ""), o)
                 r == hostsNamesToIPs(o.resp, f.call.hosts)
             IN  Frame(c, IF r.err # NoErr THEN Done(f, r.err)
                          ELSE Loops([f EXCEPT !.nodesToAdd = r.val]))

\* UpdateTCPLoadBalancer is called.
CallUpdate(c) ==
    /\ CanCall(c)
    /\ \E name \in CallNames(c), hosts \in HostLists :
          LET call == [NoCall EXCEPT !.op = "Update", !.name = name, !.hosts = hosts]
          IN  Frame(c, [NewFrame(c, call) EXCEPT !.pc = "U_lookup"])
    /\ UNCHANGED <<lbs, nodes>>

\* UpdateTCPLoadBalancer: get the load balancer, then read lb.Id.
UpdateLookup(c) ==
    /\ At(c, "U_lookup")
    /\ \E o \in Get("load_balancers", 0) :
          /\ Remote(o)
          /\ LET f == Logged(st[c], Request("GET", "load_balancers", 0, ""), o)
                 r == GetLoadBalancerByName(o.resp, f.call.name)
             IN  Frame(c, IF r.err # NoErr THEN Done(f, r.err)
                          ELSE IF r.val = <<>> THEN Panic(f)
                          ELSE [f EXCEPT !.lb = r.val, !.pc = "U_nodes"])

\* UpdateTCPLoadBalancer: get the nodes of the load balancer.
UpdateNodes(c) ==
    /\ At(c, "U_nodes")
    /\ LET id == st[c].lb[1].Id
       IN  \E o \in Get("nodes", id) :
              /\ Remote(o)
              /\ LET f == Logged(st[c], Request("GET", "nodes", id, ""), o)
                     r == GetLoadBalancerNodesAsIPs(o.resp, id)
                 IN  Frame(c, IF r.err # NoErr THEN Done(f, r.err)
                              ELSE [f EXCEPT !.nodesToRemove = r.val, !.pc = "U_resolve"])

\* Variant: an error of the resolution is not returned; the differences are
\* computed from the addresses it gave (none).
UpdateResolve_ErrorIgnored(c) ==
    /\ At(c, "U_resolve")
    /\ \E o \in Get("ships", 0) :
          /\ Remote(o)
          /\ LET f == Logged(st[c], Request("GET", "ships", 0, ""), o)
                 currentNodes == f.nodesToRemove
                 r == hostsNamesToIPs(o.resp, f.call.hosts)
             IN  Frame(c, Loops([f EXCEPT !.nodesToRemove = NodesToRemove(currentNodes, r.val),
                                          !.nodesToAdd = NodesToAdd(currentNodes, r.val)]))

\* UpdateTCPLoadBalancer: resolve the wanted hosts and compute both differences
\* (until then nodesToRemove holds currentNodes).
UpdateResolve(c) ==
    /\ At(c, "U_resolve")
    /\ \E o \in Get("ships", 0) :
          /\ Remote(o)
          /\ LET f == Logged(st[c], Request("GET", "ships", 0, ""), o)
                 currentNodes == f.nodesToRemove
                 r == hostsNamesToIPs(o.resp, f.call.hosts)
             IN  Frame(c, IF r.err # NoErr THEN Done(f, r.err)
                          ELSE Loops([f EXCEPT !.nodesToRemove = NodesToRemove(currentNodes, r.val),
                                               !.nodesToAdd = NodesToAdd(currentNodes, r.val)]))

\* deregisterInstanceFromLoadBalancer: GetNodeByIP.
DeregFind(c) ==
    /\ At(c, "D_find")
    /\ LET id == st[c].lb[1].Id
           ip == Head(st[c].nodesToRemove)
       IN  \E o \in Get("nodes", id) :
              /\ Remote(o)
              /\ LET f == Logged(st[c], Request("GET", "nodes", id, ""), o)
                     r == GetNodeByIP(o.resp, id, ip)
                 IN  Frame(c, IF r.err # NoErr THEN Done(f, r.err)
                              ELSE [f EXCEPT !.node = r.val, !.pc = "D_delete"])

\* deregisterInstanceFromLoadBalancer: delete the node, then the next address.
DeregDelete(c) ==
    /\ At(c, "D_delete")
    /\ LET id == st[c].lb[1].Id
           nodeId == st[c].node[1].ID
       IN  \E o \in Delete("nodes", id, nodeId) :
              /\ Remote(o)
              /\ LET f == Logged(st[c], Request("DELETE", "nodes", id, nodeId), o)
                     e == deregisterInstanceFromLoadBalancer(o.resp)
                 IN  Frame(c, IF e # NoErr THEN Done(f, e)
                              ELSE Loops([f EXCEPT !.nodesToRemove = Tail(@), !.node = <<>>]))

\* registerInstanceWithLoadBalancer: GetInstanceByIP.
RegFind(c) ==
    /\ At(c, "R_find")
    /\ \E o \in Get("ships", 0) :
          /\ Remote(o)
          /\ LET f == Logged(st[c], Request("GET", "ships", 0, ""), o)
                 r == GetInstanceByIP(o.resp, Head(f.nodesToAdd))
             IN  Frame(c, IF r.err # NoErr THEN Done(f, r.err)
                          ELSE [f EXCEPT !.instance = r.val, !.pc = "R_post"])

\* registerInstanceWithLoadBalancer: post the node, then the next address.
RegPost(c) ==
    /\ At(c, "R_post")
    /\ LET id == st[c].lb[1].Id
           body == toNode(st[c].instance[1])
       IN  \E o \in Post("nodes", id, body) :
              /\ Remote(o)
              /\ LET f == Logged(st[c], Request("POST", "nodes", id, body.IP), o)
                     e == registerInstanceWithLoadBalancer(o.resp)
                 IN  Frame(c, IF e # NoErr THEN Done(f, e)
                              ELSE Loops([f EXCEPT !.nodesToAdd = Tail(@), !.instance = <<>>]))

\* EnsureTCPLoadBalancerDeleted is called.
CallEnsureDeleted(c) ==
    /\ CanCall(c)
    /\ \E name \in CallNames(c) :
          LET call == [NoCall EXCEPT !.op = "EnsureDeleted", !.name = name]
          IN  Frame(c, [NewFrame(c, call) EXCEPT !.pc = "X_lookup"])
    /\ UNCHANGED <<lbs, nodes>>

\* EnsureTCPLoadBalancerDeleted: get the load balancer.
DeletedLookup(c) ==
    /\ At(c, "X_lookup")
    /\ \E o \in Get("load_balancers", 0) :
          /\ Remote(o)
          /\ LET f == Logged(st[c], Request("GET", "load_balancers", 0, ""), o)
                 r == GetLoadBalancerByName(o.resp, f.call.name)
             IN  Frame(c, IF r.err # NoErr THEN Done(f, r.err)
                          ELSE IF r.val = <<>> THEN Done(f, NoErr)
                          ELSE [f EXCEPT !.lb = r.val, !.pc = "X_delete"])

\* EnsureTCPLoadBalancerDeleted: delete the load balancer by id.
DeletedDelete(c) ==
    /\ At(c, "X_delete")
    /\ LET id == st[c].lb[1].Id
       IN  \E o \in Delete("load_balancers", id, "") :
              /\ Remote(o)
              /\ LET f == Logged(st[c], Request("DELETE", "load_balancers", id, ""), o)
                 IN  Frame(c, Done(f, DeleteLoadBalancerById(o.resp)))

\* The operation has returned: its frame is dropped.
Return(c) ==
    /\ At(c, "done")
    /\ Frame(c, [IdleFrame EXCEPT !.last = Summary(st[c])])
    /\ UNCHANGED <<lbs, nodes>>

Step(c) ==
    \/ CallEnsure(c)
    \/ EnsureLookup(c)
    \/ CreateLB(c)
    \/ CreateResolve(c)
    \/ CallUpdate(c)
    \/ UpdateLookup(c)
    \/ UpdateNodes(c)
    \/ UpdateResolve(c)
    \/ DeregFind(c)
    \/ DeregDelete(c)
    \/ RegFind(c)
    \/ RegPost(c)
    \/ CallEnsureDeleted(c)
    \/ DeletedLookup(c)
    \/ DeletedDelete(c)
    \/ Return(c)

Next == \E c \in SeqCallers : Step(c)

Spec == Init /\ [][Next]_vars

-----------------------------------------------------------------------------
\* Two callers, each on the load balancer of its own name, run their
\* operations concurrently: their steps interleave at the transport calls.
\* Every transport call is answered by the remote system (no fault), and the
\* callers pass supported arguments, host lists of ConcHostLists and the name
\* of their own load balancer.

ConcHostLists(c) ==
    IF c = "c1" THEN {<<"h1">>, <<"h1", "h2">>, <<"h2", "h3">>}
    ELSE {<<>>, <<"h3">>, <<"h2", "h1">>}

Admitted(c, f) ==
    /\ ~f.faulted
    /\ f.call.op # "none" => f.call.name = OwnName(c)
    /\ f.call.op \in {"Ensure", "Update"} => f.call.hosts \in ConcHostLists(c)
    /\ f.call.op = "Ensure" =>
           EnsureRejection(f.call.loadBalancerIP, f.call.ports, f.call.affinityType) = NoErr

\* The operation has returned: its frame is dropped, nothing is remembered.
ConcReturn(c) ==
    /\ At(c, "done")
    /\ Frame(c, IdleFrame)
    /\ UNCHANGED <<lbs, nodes>>

ConcStep(c) ==
    \/ CallEnsure(c)
    \/ EnsureLookup(c)
    \/ CreateLB(c)
    \/ CreateResolve(c)
    \/ CallUpdate(c)
    \/ UpdateLookup(c)
    \/ UpdateNodes(c)
    \/ UpdateResolve(c)
    \/ DeregFind(c)
    \/ DeregDelete(c)
    \/ RegFind(c)
    \/ RegPost(c)
    \/ CallEnsureDeleted(c)
    \/ DeletedLookup(c)
    \/ DeletedDelete(c)
    \/ ConcReturn(c)

NextConc == \E c \in Callers : ConcStep(c) /\ Admitted(c, st'[c])

SpecConc == Init /\ [][NextConc]_vars

-----------------------------------------------------------------------------
\* Two callers run their operations concurrently on the load balancer of the
\* same name, "lbA": nothing in the provider serializes them. The first
\* caller runs Ensure and Update, the second Update and EnsureDeleted. The load
\* balancer exists with one member when they begin; every transport call is
\* answered by the remote system (no fault), and the callers pass supported
\* arguments, to Update a host list of RaceHostLists and to Ensure the hosts
\* "h1" and "h2".

RaceHostLists(c) ==
    IF c = "c1" THEN {<<"h1", "h2">>, <<"h2">>}
    ELSE {<<"h1", "h3">>, <<"h3">>}
RaceOps(c) == IF c = "c1" THEN {"Ensure", "Update"} ELSE {"Update", "EnsureDeleted"}

\* The load balancer "lbA" as a previous Ensure with host "h1" left it.
RaceLb ==
    [Id |-> 1, Name |-> "lbA", FQDN |-> RemoteFqdn("lbA"), Port |-> ServicePort.Port,
     NodePort |-> ServicePort.NodePort, Protocol |-> "tcp"]
InitRace ==
    /\ lbs = [i \in LBIds |-> IF i = 1 THEN <<RaceLb>> ELSE <<>>]
    /\ nodes = [i \in LBIds |-> IF i = 1 THEN {"ip1"} ELSE {}]
    /\ st = [c \in Callers |-> IdleFrame]

RaceAdmitted(c, f) ==
    /\ ~f.faulted
    /\ f.call.op # "none" => f.call.name = "lbA" /\ f.call.op \in RaceOps(c)
    /\ f.call.op = "Update" => f.call.hosts \in RaceHostLists(c)
    /\ f.call.op = "Ensure" =>
           /\ f.call.hosts = <<"h1", "h2">>
           /\ EnsureRejection(f.call.loadBalancerIP, f.call.ports, f.call.affinityType) = NoErr

NextRace == \E c \in Callers : ConcStep(c) /\ RaceAdmitted(c, st'[c])

SpecRace == InitRace /\ [][NextRace]_vars

-----------------------------------------------------------------------------
\* The REST API client called directly over a transport that may answer
\* anything (as the unit tests drive it through RESTMock): every transport
\* call gets any body, any status, or a transport error.

Statuses == {200, 201, 204, 404, 500}

LbARecord ==
    [Id |-> 2, Name |-> "lbA", FQDN |-> RemoteFqdn("lbA"), Port |-> 80, NodePort |-> 30080,
     Protocol |-> "tcp"]
NodeRecord(ip) == [ID |-> NodeIdOf(ip), IP |-> ip]

\* The documents a listing may hold.
ShipListings == {<<>>, SubSeq(Ships, 1, 2), Ships}
LbListings == {<<>>, <<OtherLb>>, <<LbARecord, OtherLb>>}
NodeListings == {<<>>, <<NodeRecord("ip1")>>, <<NodeRecord("ip1"), NodeRecord("ip2"), NodeRecord("ip3")>>}

ListingsOf(res) ==
    CASE res = "ships" -> ShipListings
      [] res = "load_balancers" -> LbListings
      [] res = "nodes" -> NodeListings
      [] OTHER -> {<<>>}

\* Every (body, status, err) the transport may return for a request on res.
AnyResponse(res) ==
    {[body |-> Garbage, status |-> 0 - 1, err |-> TransportError]}
    \cup {Response(b, s) : b \in {Garbage} \cup {Json(l) : l \in ListingsOf(res)}, s \in Statuses}

\* Lists of addresses a client call is given.
IPLists == UNION {[1..n -> IPs] : n \in 0..MaxHosts}

\* The frame after a transport call that got response r.
Answered(f, req, r) == [f EXCEPT !.log = Append(@, req), !.step = f.pc, !.resp = r]

\* A client function is called.
ApiCall(c) ==
    /\ CanCall(c)
    /\ \/ Frame(c, [IdleFrame EXCEPT !.call.op = "GetInstanceList", !.pc = "A_instances"])
       \/ \E name \in HostNames :
             Frame(c, [IdleFrame EXCEPT !.call.op = "InstanceID", !.call.name = name, !.pc = "A_id"])
       \/ \E hosts \in HostLists :
             Frame(c, [IdleFrame EXCEPT !.call.op = "hostsNamesToIPs", !.call.hosts = hosts,
                                        !.pc = "A_resolve"])
       \/ \E name \in LBNames :
             Frame(c, [IdleFrame EXCEPT !.call.op = "GetLoadBalancerByName", !.call.name = name,
                                        !.pc = "A_lb"])
       \/ \E id \in LBIds :
             Frame(c, [IdleFrame EXCEPT !.call.op = "DeleteLoadBalancerById",
                                        !.lb = <<[OtherLb EXCEPT !.Id = id]>>, !.pc = "A_delete"])
       \/ \E id \in LBIds, ips \in IPLists :
             Frame(c, Loops([IdleFrame EXCEPT !.call.op = "RegisterInstancesWithLoadBalancer",
                                              !.call.hosts = ips, !.nodesToAdd = ips,
                                              !.lb = <<[OtherLb EXCEPT !.Id = id]>>, !.pc = "A_loop"]))
       \/ \E id \in LBIds, ips \in IPLists :
             Frame(c, Loops([IdleFrame EXCEPT !.call.op = "DeregisterInstancesFromLoadBalancer",
                                              !.call.hosts = ips, !.nodesToRemove = ips,
                                              !.lb = <<[OtherLb EXCEPT !.Id = id]>>, !.pc = "A_loop"]))
    /\ UNCHANGED <<lbs, nodes>>

\* GetInstanceList.
ApiGetInstanceList(c) ==
    /\ At(c, "A_instances")
    /\ \E r \in AnyResponse("ships") :
          LET f == Answered(st[c], Request("GET", "ships", 0, ""), r)
              l == GetInstanceList(r)
          IN  Frame(c, Done([f EXCEPT !.ret = [val |-> l.val, isNil |-> l.isNil]], l.err))
    /\ UNCHANGED <<lbs, nodes>>

\* ConcertoCloud.InstanceID over GetInstanceByName.
ApiInstanceID(c) ==
    /\ At(c, "A_id")
    /\ \E r \in AnyResponse("ships") :
          LET f == Answered(st[c], Request("GET", "ships", 0, ""), r)
              i == GetInstanceByName(r, f.call.name)
          IN  Frame(c, Done([f EXCEPT !.instance = i.val,
                                      !.ret = IF i.err # NoErr THEN "" ELSE i.val[1].Id], i.err))
    /\ UNCHANGED <<lbs, nodes>>

\* hostsNamesToIPs.
ApiHostsNamesToIPs(c) ==
    /\ At(c, "A_resolve")
    /\ \E r \in AnyResponse("ships") :
          LET f == Answered(st[c], Request("GET", "ships", 0, ""), r)
              l == hostsNamesToIPs(r, f.call.hosts)
          IN  Frame(c, Done([f EXCEPT !.ret = l.val], l.err))
    /\ UNCHANGED <<lbs, nodes>>

\* GetLoadBalancerByName.
ApiGetLoadBalancerByName(c) ==
    /\ At(c, "A_lb")
    /\ \E r \in AnyResponse("load_balancers") :
          LET f == Answered(st[c], Request("GET", "load_balancers", 0, ""), r)
              l == GetLoadBalancerByName(r, f.call.name)
          IN  Frame(c, Done([f EXCEPT !.ret = l.val], l.err))
    /\ UNCHANGED <<lbs, nodes>>

\* DeleteLoadBalancerById.
ApiDeleteLoadBalancerById(c) ==
    /\ At(c, "A_delete")
    /\ \E r \in AnyResponse("deleted") :
          LET id == st[c].lb[1].Id
              f == Answered(st[c], Request("DELETE", "load_balancers", id, ""), r)
          IN  Frame(c, Done(f, DeleteLoadBalancerById(r)))
    /\ UNCHANGED <<lbs, nodes>>

\* registerInstanceWithLoadBalancer: GetInstanceByIP.
ApiRegFind(c) ==
    /\ At(c, "R_find")
    /\ \E r \in AnyResponse("ships") :
          LET f == Answered(st[c], Request("GET", "ships", 0, ""), r)
              i == GetInstanceByIP(r, Head(f.nodesToAdd))
          IN  Frame(c, IF i.err # NoErr THEN Done(f, i.err)
                       ELSE [f EXCEPT !.instance = i.val, !.pc = "R_post"])
    /\ UNCHANGED <<lbs, nodes>>

\* registerInstanceWithLoadBalancer: post the node, then the next address.
ApiRegPost(c) ==
    /\ At(c, "R_post")
    /\ \E r \in AnyResponse("posted") :
          LET id == st[c].lb[1].Id
              body == toNode(st[c].instance[1])
              f == Answered(st[c], Request("POST", "nodes", id, body.IP), r)
              e == registerInstanceWithLoadBalancer(r)
          IN  Frame(c, IF e # NoErr THEN Done(f, e)
                       ELSE Loops([f EXCEPT !.nodesToAdd = Tail(@), !.instance = <<>>]))
    /\ UNCHANGED <<lbs, nodes>>

\* deregisterInstanceFromLoadBalancer: GetNodeByIP.
ApiDeregFind(c) ==
    /\ At(c, "D_find")
    /\ \E r \in AnyResponse("nodes") :
          LET id == st[c].lb[1].Id
              f == Answered(st[c], Request("GET", "nodes", id, ""), r)
              n == GetNodeByIP(r, id, Head(f.nodesToRemove))
          IN  Frame(c, IF n.err # NoErr THEN Done(f, n.err)
                       ELSE [f EXCEPT !.node = n.val, !.pc = "D_delete"])
    /\ UNCHANGED <<lbs, nodes>>

\* deregisterInstanceFromLoadBalancer: delete the node, then the next address.
ApiDeregDelete(c) ==
    /\ At(c, "D_delete")
    /\ \E r \in AnyResponse("deleted") :
          LET id == st[c].lb[1].Id
              nodeId == st[c].node[1].ID
              f == Answered(st[c], Request("DELETE", "nodes", id, nodeId), r)
              e == deregisterInstanceFromLoadBalancer(r)
          IN  Frame(c, IF e # NoErr THEN Done(f, e)
                       ELSE Loops([f EXCEPT !.nodesToRemove = Tail(@), !.node = <<>>]))
    /\ UNCHANGED <<lbs, nodes>>

\* The client call has returned.
ApiReturn(c) ==
    /\ At(c, "done")
    /\ Frame(c, IdleFrame)
    /\ UNCHANGED <<lbs, nodes>>

ApiStep(c) ==
    \/ ApiCall(c)
    \/ ApiGetInstanceList(c)
    \/ ApiInstanceID(c)
    \/ ApiHostsNamesToIPs(c)
    \/ ApiGetLoadBalancerByName(c)
    \/ ApiDeleteLoadBalancerById(c)
    \/ ApiRegFind(c)
    \/ ApiRegPost(c)
    \/ ApiDeregFind(c)
    \/ ApiDeregDelete(c)
    \/ ApiReturn(c)

NextApi == \E c \in SeqCallers : ApiStep(c)

SpecApi == Init /\ [][NextApi]_vars

-----------------------------------------------------------------------------
\* Vocabulary of the properties.

Frames == {st[c] : c \in Callers}
Finished(f, op) == f.pc = "done" /\ f.call.op = op
\* The operation returned a nil error and none of its transport calls met a fault.
Clean(f) == f.err = NoErr /\ ~f.faulted

ShipSet == {Ships[k] : k \in 1..Len(Ships)}
AllResolve(hosts) == \A h \in Range(hosts) : \E s \in ShipSet : s.fqdn = h
\* The addresses of the instances the hosts name.
AddressesOf(hosts) == {s.public_ip : s \in {t \in ShipSet : t.fqdn \in Range(hosts)}}
NoDuplicates(s) == \A i, j \in 1..Len(s) : s[i] = s[j] => i = j

AddressOfNode(nodeId) == CHOOSE ip \in IPs : NodeIdOf(ip) = nodeId
IsRegister(req) == req.verb = "POST" /\ req.res = "nodes"
IsDeregister(req) == req.verb = "DELETE" /\ req.res = "nodes"
\* The addresses of the register (POST member) calls of a log, in order.
Registered(log) ==
    LET posts == SelectSeq(log, IsRegister) IN [k \in 1..Len(posts) |-> posts[k].arg]
\* The addresses of the deregister (DELETE member) calls of a log, in order.
Deregistered(log) ==
    LET dels == SelectSeq(log, IsDeregister)
    IN  [k \in 1..Len(dels) |-> AddressOfNode(dels[k].arg)]

\* The errors a register or deregister step of frame f can return.
StepErrors(f, step) ==
    CASE step = "D_find" ->
             {TransportError, DecodeError, LoadBalancerNotFoundError(f.lb[1].Id)}
             \cup {NodeNotFoundError(ip, f.lb[1].Id) : ip \in IPs}
      [] step = "D_delete" -> {TransportError, LoadBalancerDeregisterInstanceError}
      [] step = "R_find" -> {TransportError, DecodeError, InstanceNotFound}
      [] step = "R_post" -> {TransportError, LoadBalancerRegisterInstanceError}
      [] OTHER -> {}

-----------------------------------------------------------------------------
\* C1 (idempotence of Update): an Update whose remote calls all succeed leaves
\* the membership equal to the addresses of the desired hosts; when the
\* previous operation was such an Update with the same name and hosts, this
\* one issues no register and no deregister call and leaves the membership as
\* it found it.
C1_UpdateIdempotent ==
    \A f \in Frames :
        (Finished(f, "Update") /\ Clean(f)) =>
            /\ AllResolve(f.call.hosts)
            /\ Members(f.call.name) = AddressesOf(f.call.hosts)
            /\ (f.prev.op = "Update" /\ f.prev.result = "ok") =>
                   /\ MutatingCalls(f.log) = <<>>
                   /\ Members(f.call.name) = f.m0

\* A second Update of two hosts, after a first one that changed the membership.
C1_Witness ==
    \E f \in Frames :
        /\ Finished(f, "Update") /\ Clean(f)
        /\ f.prev.op = "Update" /\ f.prev.result = "ok" /\ f.prev.mutated
        /\ Cardinality(AddressesOf(f.call.hosts)) = 2

\* C2 (set-difference correctness of Update): with M the membership the
\* Update found and D the addresses of its desired hosts, an Update that met
\* no fault never registers an address outside D \ M nor deregisters one
\* outside M \ D; when it has returned nil, it has deregistered exactly M \ D
\* and registered exactly D \ M, each once when no host is named twice, and
\* the membership is D.
C2_SetDifference ==
    \A f \in Frames :
        (f.call.op = "Update" /\ ~f.faulted) =>
            LET M == f.m0
                D == AddressesOf(f.call.hosts)
            IN  /\ Range(Registered(f.log)) \subseteq D \ M
                /\ Range(Deregistered(f.log)) \subseteq M \ D
                /\ (f.pc = "done" /\ f.err = NoErr) =>
                       /\ Range(Registered(f.log)) = D \ M
                       /\ Range(Deregistered(f.log)) = M \ D
                       /\ Members(f.call.name) = D
                       /\ NoDuplicates(f.call.hosts) =>
                              /\ NoDuplicates(Registered(f.log))
                              /\ NoDuplicates(Deregistered(f.log))

\* M = {ip1, ip2}, D = {ip2, ip3}: ip1 removed, ip3 added, ip2 untouched.
C2_Witness ==
    \E f \in Frames :
        /\ Finished(f, "Update") /\ Clean(f)
        /\ f.m0 = {"ip1", "ip2"}
        /\ AddressesOf(f.call.hosts) = {"ip2", "ip3"}
        /\ Deregistered(f.log) = <<"ip1">>
        /\ Registered(f.log) = <<"ip3">>
        /\ Members(f.call.name) = {"ip2", "ip3"}

\* C3 (create-then-populate): an Ensure of a name no load balancer has, with
\* a non-empty host list and every remote call succeeding, results in exactly
\* one load balancer of the name, whose membership is the addresses of the hosts.
C3_CreateThenPopulate ==
    \A f \in Frames :
        (Finished(f, "Ensure") /\ Clean(f) /\ ~f.existed0 /\ f.call.hosts # <<>>) =>
            /\ AllResolve(f.call.hosts)
            /\ f.created
            /\ Cardinality(LbsNamed(f.call.name)) = 1
            /\ Members(f.call.name) = AddressesOf(f.call.hosts)

C3_Witness ==
    \E f \in Frames :
        /\ Finished(f, "Ensure") /\ Clean(f) /\ ~f.existed0
        /\ Cardinality(AddressesOf(f.call.hosts)) = 2
        /\ Cardinality(LbsNamed("lbB")) = 1

\* C4 (Update of a missing load balancer): an Update whose lookup finds no
\* load balancer of the name returns an error to its caller, without
\* crashing and without any member listing, register or deregister call.
C4_UpdateMissingReturnsError ==
    \A f \in Frames :
        (f.call.op = "Update" /\ ~f.existed0 /\ ~f.faulted /\ f.pc # "U_lookup") =>
            /\ f.pc = "done"
            /\ f.err # NoErr
            /\ \A k \in 1..Len(f.log) : f.log[k].res # "nodes"

\* C5 (delete is idempotent): an EnsureDeleted that met no fault returns nil
\* and leaves no load balancer of the name; it issues no DELETE when none
\* existed, which is the case when the previous operation was such an
\* EnsureDeleted of the same name.
C5_DeleteIdempotent ==
    \A f \in Frames :
        (Finished(f, "EnsureDeleted") /\ ~f.faulted) =>
            /\ f.err = NoErr
            /\ LbsNamed(f.call.name) = {}
            /\ ~f.existed0 => MutatingCalls(f.log) = <<>>
            /\ (f.prev.op = "EnsureDeleted" /\ f.prev.result = "ok") =>
                   ~f.existed0 /\ MutatingCalls(f.log) = <<>>

\* A second EnsureDeleted after one that deleted the load balancer.
C5_Witness ==
    \E f \in Frames :
        /\ Finished(f, "EnsureDeleted") /\ ~f.faulted
        /\ f.prev.op = "EnsureDeleted" /\ f.prev.result = "ok" /\ f.prev.mutated

\* C6 (capability rejection): an Ensure with an affinity other than none, a
\* non-nil load-balancer IP or a number of ports other than one has returned
\* the error of one of its unsupported arguments, without any remote call
\* and with the remote state for the name as it was.
C6_CapabilityRejection ==
    \A f \in Frames :
        LET a == f.call
            badAffinity == a.affinityType # "None"
            badIP == a.loadBalancerIP # <<>>
            badPorts == Len(a.ports) # 1
        IN  (a.op = "Ensure" /\ (badAffinity \/ badIP \/ badPorts)) =>
                /\ f.pc = "done"
                /\ f.status = <<>>
                /\ \/ badAffinity /\ f.err = LoadBalancerUnsupportedAffinityError
                   \/ badIP /\ f.err = LoadBalancerUnsupportedExternalIPError
                   \/ badPorts /\ f.err = LoadBalancerUnsupportedNumberOfPortsError
                /\ f.log = <<>>
                /\ Members(a.name) = f.m0
                /\ (LbsNamed(a.name) # {}) = f.existed0

\* An Ensure with two ports, rejected while a load balancer of the name exists.
C6_Witness ==
    \E f \in Frames :
        /\ Finished(f, "Ensure")
        /\ Len(f.call.ports) = 2
        /\ f.err = LoadBalancerUnsupportedNumberOfPortsError
        /\ f.existed0

\* C7 (Ensure is idempotent): when the previous operation was an Ensure of
\* the same name and hosts whose remote calls all succeeded, an Ensure whose
\* remote calls all succeed takes the update path, issues no create, register
\* or deregister call, leaves exactly one load balancer of the name with the
\* membership it found, and returns the same status.
C7_EnsureIdempotent ==
    \A f \in Frames :
        (Finished(f, "Ensure") /\ Clean(f) /\ f.prev.op = "Ensure" /\ f.prev.result = "ok") =>
            /\ f.existed0 /\ ~f.created
            /\ MutatingCalls(f.log) = <<>>
            /\ Cardinality(LbsNamed(f.call.name)) = 1
            /\ Members(f.call.name) = f.m0
            /\ Members(f.call.name) = AddressesOf(f.call.hosts)
            /\ f.status # <<>>
            /\ f.status = f.prev.status

\* A second Ensure after one that created the load balancer with two members.
C7_Witness ==
    \E f \in Frames :
        /\ Finished(f, "Ensure") /\ Clean(f)
        /\ f.prev.op = "Ensure" /\ f.prev.result = "ok" /\ f.prev.created
        /\ Cardinality(f.m0) = 2

\* C8 (removals before additions, abort on first failure): in an Update no
\* deregister call follows a register call; a register or deregister step
\* whose transport call meets a fault makes the operation return that
\* step's error at once; an error returned from such a step is an error of
\* that step; and an operation that returned an error from a deregister step
\* has issued no register call.
C8_RemoveBeforeAddAbortOnFailure ==
    \A f \in Frames :
        /\ \A i, j \in 1..Len(f.log) :
               (IsRegister(f.log[i]) /\ IsDeregister(f.log[j])) => j < i
        /\ (f.lastFault /\ f.step \in ApplySteps) =>
               f.pc = "done" /\ f.at = f.step /\ f.err \in StepErrors(f, f.step)
        /\ (f.pc = "done" /\ f.err # NoErr /\ f.at \in ApplySteps) =>
               f.err \in StepErrors(f, f.at)
        /\ (f.pc = "done" /\ f.err # NoErr /\ f.at \in {"D_find", "D_delete"}) =>
               Registered(f.log) = <<>>

\* An Update that removed a member and then failed posting an addition.
C8_Witness ==
    \E f \in Frames :
        /\ Finished(f, "Update") /\ f.err # NoErr /\ f.at = "R_post"
        /\ Deregistered(f.log) # <<>>
        /\ Len(f.nodesToAdd) = 2

\* C9 (convergence after a partial failure): when the previous operation was
\* an Update of the same name and hosts that returned an error from a
\* register or deregister step, an Update whose remote calls all succeed ends
\* with the membership equal to the addresses of the desired hosts.
C9_ConvergeAfterPartialUpdate ==
    \A f \in Frames :
        (Finished(f, "Update") /\ Clean(f)
           /\ f.prev.op = "Update" /\ f.prev.result = "failed" /\ f.prev.phase = "apply") =>
            Members(f.call.name) = AddressesOf(f.call.hosts)

\* The failed Update had changed the membership, and this one had to repair it.
C9_Witness ==
    \E f \in Frames :
        /\ Finished(f, "Update") /\ Clean(f)
        /\ f.prev.op = "Update" /\ f.prev.result = "failed" /\ f.prev.phase = "apply"
        /\ f.prev.mutated
        /\ f.m0 # AddressesOf(f.call.hosts)
        /\ Deregistered(f.log) # <<>> /\ Registered(f.log) # <<>>

\* C10 (partial failure on the create path): when a register step of an
\* Ensure that created the load balancer meets a fault, the Ensure returns
\* that step's error and no status, the load balancer stays with exactly the members
\* registered before; and when the previous operation was an Ensure that
\* failed so, an Ensure or Update of the same name and hosts whose remote
\* calls all succeed ends with the membership equal to the addresses of the
\* desired hosts.
C10_CreatePathPartialFailure ==
    \A f \in Frames :
        /\ (f.call.op = "Ensure" /\ f.created /\ f.lastFault /\ f.step \in {"R_find", "R_post"}) =>
               /\ f.pc = "done" /\ f.err \in StepErrors(f, f.step) /\ f.status = <<>>
               /\ Cardinality(LbsNamed(f.call.name)) = 1
               /\ LET posts == Registered(f.log)
                      before == IF f.step = "R_post" THEN SubSeq(posts, 1, Len(posts) - 1)
                                ELSE posts
                  IN  Members(f.call.name) = Range(before)
        /\ (f.pc = "done" /\ f.call.op \in {"Ensure", "Update"} /\ Clean(f)
              /\ f.prev.op = "Ensure" /\ f.prev.created
              /\ f.prev.result = "failed" /\ f.prev.phase = "apply") =>
               /\ Cardinality(LbsNamed(f.call.name)) = 1
               /\ Members(f.call.name) = AddressesOf(f.call.hosts)

\* An Ensure that repairs a load balancer left with one of its two members.
C10_Witness ==
    \E f \in Frames :
        /\ Finished(f, "Ensure") /\ Clean(f)
        /\ f.prev.op = "Ensure" /\ f.prev.created
        /\ f.prev.result = "failed" /\ f.prev.phase = "apply"
        /\ Cardinality(f.m0) = 1
        /\ Cardinality(AddressesOf(f.call.hosts)) = 2

-----------------------------------------------------------------------------
\* Vocabulary of the properties of the client calls.

\* The transport call got an answer the instance listing can be read from;
\* the ships it lists (none with status 404).
ShipsReadable(r) == r.err = NoErr /\ (r.status = 404 \/ r.body.ok)
ShipsListed(r) == IF r.status = 404 THEN <<>> ELSE r.body.val
\* Index of the first element of a non-empty set of indexes.
First(S) == CHOOSE k \in S : \A j \in S : k <= j

\* C11 (address resolution is all-or-nothing): hostsNamesToIPs returns no
\* address whenever it returns an error; over a readable instance listing it
\* returns, when every name matches a listed instance, one address per name,
\* in order, each the address of the first instance of that name, and
\* otherwise the error naming the first name without instance.
C11_ResolutionAllOrNothing ==
    \A f \in Frames :
        Finished(f, "hostsNamesToIPs") =>
            LET hosts == f.call.hosts
                ships == ShipsListed(f.resp)
                At_(h) == {k \in 1..Len(ships) : ships[k].fqdn = h}
                missing == {k \in 1..Len(hosts) : At_(hosts[k]) = {}}
            IN  /\ f.err # NoErr => f.ret = <<>>
                /\ Len(f.log) = 1
                /\ ShipsReadable(f.resp) =>
                       IF missing = {}
                       THEN /\ f.err = NoErr
                            /\ f.ret = [k \in 1..Len(hosts) |-> ships[First(At_(hosts[k]))].public_ip]
                       ELSE f.err = CouldNotFindInstanceError(hosts[First(missing)])

\* The first name has an instance in the listing, the second has none.
C11_Witness ==
    \E f \in Frames :
        /\ Finished(f, "hostsNamesToIPs")
        /\ f.call.hosts = <<"h1", "h3">>
        /\ ShipsReadable(f.resp) /\ f.resp.status = 200 /\ Len(ShipsListed(f.resp)) = 2
        /\ f.err = CouldNotFindInstanceError("h3") /\ f.ret = <<>>

\* The transport calls of a registration of the addresses ips with load
\* balancer id in which every call succeeds: for each address in order, the
\* GET of the instance listing, then the POST of the address to the nodes of id.
RegisterCalls(id, ips) ==
    [i \in 1..(2 * Len(ips)) |->
        IF i % 2 = 1 THEN Request("GET", "ships", 0, "")
        ELSE Request("POST", "nodes", id, ips[i \div 2])]

\* C12 (transport calls of a registration): the calls a
\* RegisterInstancesWithLoadBalancer has issued are at any time the first
\* ones of the list above and, once it has returned nil, the whole list: 2n
\* calls for n addresses.
C12_RegisterIssuesTwoCallsPerAddress ==
    \A f \in Frames :
        f.call.op = "RegisterInstancesWithLoadBalancer" =>
            LET calls == RegisterCalls(f.lb[1].Id, f.call.hosts)
            IN  /\ Len(f.log) <= Len(calls)
                /\ \A i \in 1..Len(f.log) : f.log[i] = calls[i]
                /\ (f.pc = "done" /\ f.err = NoErr) =>
                       f.log = calls /\ Len(f.log) = 2 * Len(f.call.hosts)

\* Two different addresses registered with four calls.
C12_Witness ==
    \E f \in Frames :
        /\ Finished(f, "RegisterInstancesWithLoadBalancer") /\ f.err = NoErr
        /\ f.call.hosts = <<"ip2", "ip1">>
        /\ Len(f.log) = 4
        /\ Registered(f.log) = <<"ip2", "ip1">>

\* The operation returned an error from the step that made its last call.
FailedAtLastCall(f) == f.pc = "done" /\ f.err # NoErr /\ f.at = f.step

\* C13 (addMember): in a registration, after the GET of the instance listing
\* for an address, a readable listing without instance of that address makes
\* the call return InstanceNotFound with no POST for the address, and one
\* with such an instance leads to the POST of that address; after the POST,
\* the registration of the address has succeeded exactly when the response
\* has no transport error and status 201, any other status returns
\* LoadBalancerRegisterInstanceError, a transport error is returned as it is.
C13_AddMember ==
    \A f \in Frames :
        f.call.op = "RegisterInstancesWithLoadBalancer" =>
            LET ips == f.call.hosts
                posted == Registered(f.log)
                ships == ShipsListed(f.resp)
            IN  /\ (f.step = "R_find" /\ ShipsReadable(f.resp)) =>
                       LET ip == Head(f.nodesToAdd)
                       IN  IF \E k \in 1..Len(ships) : ships[k].public_ip = ip
                           THEN f.pc = "R_post" /\ f.instance[1].PublicIP = ip
                           ELSE /\ FailedAtLastCall(f) /\ f.err = InstanceNotFound
                                /\ posted = SubSeq(ips, 1, Len(ips) - Len(f.nodesToAdd))
                /\ f.step = "R_post" =>
                       /\ posted = SubSeq(ips, 1, Len(posted))
                       /\ (f.resp.err = NoErr /\ f.resp.status = 201) <=> ~FailedAtLastCall(f)
                       /\ (f.resp.err = NoErr /\ f.resp.status # 201) =>
                              FailedAtLastCall(f) /\ f.err = LoadBalancerRegisterInstanceError
                       /\ f.resp.err # NoErr => FailedAtLastCall(f) /\ f.err = f.resp.err

\* The second address is posted and answered with status 200.
C13_Witness ==
    \E f \in Frames :
        /\ Finished(f, "RegisterInstancesWithLoadBalancer")
        /\ f.step = "R_post" /\ f.resp.err = NoErr /\ f.resp.status = 200
        /\ f.err = LoadBalancerRegisterInstanceError
        /\ Len(Registered(f.log)) = 2

\* The transport call got an answer the node listing can be read from.
NodesReadable(r) == r.err = NoErr /\ r.status # 404 /\ r.body.ok

\* C14 (removeMember): in a deregistration, after the GET of the node listing
\* for an address, a readable listing without node of that address makes the
\* call return the node-not-found error with no DELETE for the address, and
\* one with such a node leads to the DELETE of that node's id; after the
\* DELETE, the deregistration of the address has succeeded exactly when the
\* response has no transport error and status 200 or 204, any other status
\* returns LoadBalancerDeregisterInstanceError, a transport error is returned
\* as it is.
C14_RemoveMember ==
    \A f \in Frames :
        f.call.op = "DeregisterInstancesFromLoadBalancer" =>
            LET ips == f.call.hosts
                id == f.lb[1].Id
                deleted == Deregistered(f.log)
                listed == f.resp.body.val
            IN  /\ (f.step = "D_find" /\ NodesReadable(f.resp)) =>
                       LET ip == Head(f.nodesToRemove)
                           hits == {k \in 1..Len(listed) : listed[k].IP = ip}
                       IN  IF hits # {}
                           THEN f.pc = "D_delete" /\ f.node = <<listed[First(hits)]>>
                           ELSE /\ FailedAtLastCall(f) /\ f.err = NodeNotFoundError(ip, id)
                                /\ deleted = SubSeq(ips, 1, Len(ips) - Len(f.nodesToRemove))
                /\ f.step = "D_delete" =>
                       /\ deleted = SubSeq(ips, 1, Len(deleted))
                       /\ f.log[Len(f.log)] =
                              Request("DELETE", "nodes", id, NodeIdOf(ips[Len(deleted)]))
                       /\ (f.resp.err = NoErr /\ f.resp.status \in {200, 204}) <=> ~FailedAtLastCall(f)
                       /\ (f.resp.err = NoErr /\ f.resp.status \notin {200, 204}) =>
                              FailedAtLastCall(f) /\ f.err = LoadBalancerDeregisterInstanceError
                       /\ f.resp.err # NoErr => FailedAtLastCall(f) /\ f.err = f.resp.err

\* Two members removed, the second DELETE answered with status 204.
C14_Witness ==
    \E f \in Frames :
        /\ Finished(f, "DeregisterInstancesFromLoadBalancer") /\ f.err = NoErr
        /\ Deregistered(f.log) = <<"ip3", "ip1">>
        /\ f.resp.status = 204

\* C15 (no instances): a GetInstanceList whose GET is answered with status
\* 404, whatever the body, returns no error and an empty slice that is not
\* nil, after exactly one GET of the instance listing.
C15_NoInstancesEmptyNotNil ==
    \A f \in Frames :
        (Finished(f, "GetInstanceList") /\ f.resp.err = NoErr /\ f.resp.status = 404) =>
            /\ f.err = NoErr
            /\ f.ret.val = <<>>
            /\ ~f.ret.isNil
            /\ f.log = <<Request("GET", "ships", 0, "")>>

\* The transport call got an answer the load-balancer listing can be read from.
LbsReadable(r) == r.err = NoErr /\ r.status < 400 /\ r.body.ok

\* C16 (findLoadBalancerByName): over a readable load-balancer listing,
\* GetLoadBalancerByName returns no error and the first listed load balancer
\* of the name, or nil when the listing has none of that name.
C16_FindLoadBalancerByName ==
    \A f \in Frames :
        (Finished(f, "GetLoadBalancerByName") /\ LbsReadable(f.resp)) =>
            LET listed == f.resp.body.val
                hits == {k \in 1..Len(listed) : listed[k].Name = f.call.name}
            IN  /\ f.err = NoErr
                /\ f.ret = IF hits = {} THEN <<>> ELSE <<listed[First(hits)]>>

\* "lbA" looked up in a listing that holds only "lbB".
C16_Witness ==
    \E f \in Frames :
        /\ Finished(f, "GetLoadBalancerByName") /\ LbsReadable(f.resp)
        /\ f.call.name = "lbA" /\ f.resp.body.val = <<OtherLb>>
        /\ f.ret = <<>> /\ f.err = NoErr

\* C17 (findInstanceByName and InstanceID): over a readable instance listing,
\* GetInstanceByName returns the first listed instance of exactly the name
\* and InstanceID its id with no error; when the listing has no instance of
\* the name, GetInstanceByName fails with InstanceNotFound and InstanceID
\* returns the empty id with that error.  InstanceID returns the empty id
\* with every error.
C17_FindInstanceByName ==
    \A f \in Frames :
        Finished(f, "InstanceID") =>
            /\ f.err # NoErr => f.ret = "" /\ f.instance = <<>>
            /\ ShipsReadable(f.resp) =>
                   LET ships == ShipsListed(f.resp)
                       hits == {k \in 1..Len(ships) : ships[k].fqdn = f.call.name}
                   IN  IF hits # {}
                       THEN /\ f.err = NoErr
                            /\ f.instance = <<ShipToInstance(ships[First(hits)])>>
                            /\ f.ret = ships[First(hits)].id
                       ELSE f.err = InstanceNotFound

\* "h3" looked up in a listing of two other instances.
C17_Witness ==
    \E f \in Frames :
        /\ Finished(f, "InstanceID") /\ ShipsReadable(f.resp)
        /\ f.call.name = "h3" /\ Len(ShipsListed(f.resp)) = 2
        /\ f.err = InstanceNotFound /\ f.ret = ""

\* C18 (deleteLoadBalancerById): DeleteLoadBalancerById issues one DELETE of
\* the load balancer and returns nil exactly when the response has no
\* transport error and status 200 or 204; any other status returns
\* LoadBalancerDeleteError, and a transport error is returned as it is.
C18_DeleteLoadBalancerById ==
    \A f \in Frames :
        Finished(f, "DeleteLoadBalancerById") =>
            /\ f.log = <<Request("DELETE", "load_balancers", f.lb[1].Id, "")>>
            /\ f.err = NoErr <=> (f.resp.err = NoErr /\ f.resp.status \in {200, 204})
            /\ (f.resp.err = NoErr /\ f.resp.status \notin {200, 204}) =>
                   f.err = LoadBalancerDeleteError
            /\ f.resp.err # NoErr => f.err = f.resp.err

\* A DELETE answered with status 201.
C18_Witness ==
    \E f \in Frames :
        /\ Finished(f, "DeleteLoadBalancerById")
        /\ f.resp.err = NoErr /\ f.resp.status = 201
        /\ f.err = LoadBalancerDeleteError

-----------------------------------------------------------------------------
\* The steps of the provider operations that list the load balancers.
LookupSteps == {"E_lookup", "U_lookup", "X_lookup"}

\* C19 (listLoadBalancers fails on an error status): when the GET of the
\* load-balancer listing made by a step of Ensure, Update or EnsureDeleted is
\* not answered with the listing (transport error, or status 404 or 500 with
\* an unreadable body or with a well-formed empty list), the operation
\* returns from that step with the transport error or the error of that HTTP
\* status, never a decoding error; it has issued nothing but GETs of the
\* listing, one per lookup, and the load balancer of the name and its
\* members are as they were.
C19_ListingErrorStatusFails ==
    \A f \in Frames :
        (f.lastFault /\ f.step \in LookupSteps) =>
            /\ f.pc = "done" /\ f.at = f.step
            /\ f.err \in {TransportError} \cup {HttpGetLoadBalancersError(s) : s \in {404, 500}}
            /\ f.status = <<>>
            /\ MutatingCalls(f.log) = <<>>
            /\ \A i \in 1..Len(f.log) : f.log[i] = Request("GET", "load_balancers", 0, "")
            /\ Len(f.log) = IF f.call.op = "Ensure" /\ f.step = "U_lookup" THEN 2 ELSE 1
            /\ Members(f.call.name) = f.m0
            /\ (LbsNamed(f.call.name) # {}) = f.existed0

\* An Ensure whose second listing, on the update path, is answered with status 500.
C19_Witness ==
    \E f \in Frames :
        /\ Finished(f, "Ensure") /\ f.lastFault /\ f.step = "U_lookup"
        /\ f.err = HttpGetLoadBalancersError(500)
        /\ f.existed0 /\ f.m0 # {}

-----------------------------------------------------------------------------
\* C20 (independence of distinct names): with two callers running Ensure,
\* Update and EnsureDeleted concurrently, each on its own name and every
\* remote call succeeding, an Ensure or Update that has returned nil leaves
\* exactly one load balancer of its name, with the addresses of its own
\* hosts as members, whatever the other caller has done in between or does
\* afterwards: the result of running the calls one after the other.
C20_DistinctNamesIndependent ==
    \A c \in Callers :
        LET f == st[c]
        IN  (f.pc = "done" /\ f.call.op \in {"Ensure", "Update"} /\ f.err = NoErr) =>
                /\ f.call.name = OwnName(c)
                /\ Cardinality(LbsNamed(f.call.name)) = 1
                /\ Members(f.call.name) = AddressesOf(f.call.hosts)

\* Both operations have returned, each made calls while the other was under
\* way, both changed their membership and the two memberships differ.
C20_Witness ==
    LET f == st["c1"]
        g == st["c2"]
    IN  /\ Finished(f, "Update") /\ f.err = NoErr /\ f.overlap
        /\ g.pc = "done" /\ g.call.op \in {"Ensure", "Update"} /\ g.err = NoErr /\ g.overlap
        /\ Registered(f.log) # <<>> /\ Deregistered(f.log) # <<>>
        /\ Registered(g.log) # <<>>
        /\ Members("lbA") = {"ip2", "ip3"} /\ Members("lbB") = {"ip1", "ip2"}

-----------------------------------------------------------------------------
\* Properties of failure handling, ordering and concurrency.

\* The three operations of the provider.
ProviderOps == {"Ensure", "Update", "EnsureDeleted"}

\* C22 (no local retry): in Ensure, Update and EnsureDeleted an error is only
\* ever held by an operation that has returned, and an operation that made
\* transport calls returned from the step that made its last call; a call that
\* met a fault (a transport error, or an error status in place of the remote's
\* answer) was the operation's last call and made it return an error. The one
\* exception is a faulty answer the operation does not treat as a failure: in
\* Update, a member listing answered with an error status and an empty list
\* is read as no member, and an instance listing answered with status 404 or
\* an empty list is read as no instance, which resolves an empty host list.
C22_NoLocalRetry ==
    \A f \in Frames :
        f.call.op \in ProviderOps =>
            /\ f.err # NoErr => f.pc = "done"
            /\ f.pc = "done" /\ f.log # <<>> => f.at = f.step
            /\ f.lastFault /\ f.step \notin {"U_nodes", "U_resolve"} => FailedAtLastCall(f)
            /\ f.lastFault /\ f.step = "U_nodes" /\ ~FailedAtLastCall(f) =>
                   f.pc = "U_resolve" /\ f.nodesToRemove = <<>>
            /\ f.lastFault /\ f.step = "U_resolve" /\ ~FailedAtLastCall(f) =>
                   f.call.hosts = <<>> /\ f.nodesToAdd = <<>>

\* An Update whose first DELETE met a transport error: it returned although
\* an address was still to be removed and another to be added.
C22_Witness ==
    \E f \in Frames :
        /\ Finished(f, "Update") /\ f.lastFault /\ f.step = "D_delete"
        /\ f.err = TransportError
        /\ Len(f.log) = 5
        /\ Len(f.nodesToRemove) = 2 /\ f.nodesToAdd # <<>>

\* The error statuses met in the runs: not found, and a server error.
ErrorStatuses == {404, 500}
\* The errors GetInstanceList can produce.
ListingErrors == {TransportError, DecodeError}
\* The steps that resolve host names.
ResolveSteps == {"C_resolve", "U_resolve"}
\* The errors the client call (or, at a resolve step, the name lookup that
\* follows the instance listing) of a step of frame f can produce.
CallErrors(f, step) ==
    CASE step \in LookupSteps ->
             ListingErrors \cup {HttpGetLoadBalancersError(s) : s \in ErrorStatuses}
      [] step = "C_create" ->
             ListingErrors \cup {HttpCreateLoadBalancerError(s, f.call.name) : s \in ErrorStatuses}
      [] step = "U_nodes" -> ListingErrors \cup {LoadBalancerNotFoundError(f.lb[1].Id)}
      [] step \in ResolveSteps ->
             ListingErrors \cup {CouldNotFindInstanceError(h) : h \in Range(f.call.hosts)}
      [] OTHER -> StepErrors(f, step)
\* The operation returned from a step other than the capability checks.
FailedAtCall(f) == FailedAtLastCall(f) /\ f.call.op \in {"Ensure", "Update"}

\* C23 as stated (errors reach the caller unmodified): the error Ensure or
\* Update returns from a step is one its failing call produces, also when
\* that call is the instance listing made while resolving host names.
C23_ErrorsUnmodified ==
    \A f \in Frames : FailedAtCall(f) => f.err \in CallErrors(f, f.at)

\* C23 as the code has it: the error Ensure or Update returns from a step is
\* one its failing call produces, except that an error of the instance
\* listing made while resolving host names is returned inside a new error,
\* "Error while converting names to IP addresses: <error>"; the error of a
\* transport failure or an unreadable body is only returned after a call that
\* met a fault.
C23_ErrorsUnmodifiedButListingWrapped ==
    \A f \in Frames :
        FailedAtCall(f) =>
            /\ IF f.at \in ResolveSteps
               THEN f.err \in {NamesToIPsError(e) : e \in ListingErrors}
                              \cup (CallErrors(f, f.at) \ ListingErrors)
               ELSE f.err \in CallErrors(f, f.at)
            /\ f.err \in ListingErrors \cup {NamesToIPsError(e) : e \in ListingErrors} =>
                   f.lastFault

\* An Update whose instance listing met a transport error while it resolved
\* host names.
C23_Witness ==
    \E f \in Frames :
        /\ Finished(f, "Update") /\ f.at = "U_resolve" /\ f.lastFault
        /\ f.call.hosts # <<>>
        /\ f.err = NamesToIPsError(TransportError)

Larger(a, b) == IF a >= b THEN a ELSE b

NoOpUpdate(f) ==
    /\ Finished(f, "Update") /\ Clean(f)
    /\ f.existed0 /\ AllResolve(f.call.hosts)
    /\ f.m0 = AddressesOf(f.call.hosts)

\* C25 as stated (a no-op Update is read-only): it issues exactly two GETs
\* in total and no POST or DELETE.
C25_NoOpUpdateTwoGets ==
    \A f \in Frames :
        NoOpUpdate(f) => Len(f.log) = 2 /\ MutatingCalls(f.log) = <<>>

\* C25 as the code has it: a no-op Update issues exactly three GETs, of the
\* load-balancer listing (the lookup by name), of the nodes of the load
\* balancer and of the instance listing, in that order, and no POST or
\* DELETE; the membership is unchanged.
C25_NoOpUpdateThreeGets ==
    \A f \in Frames :
        NoOpUpdate(f) =>
            /\ f.log = << Request("GET", "load_balancers", 0, ""),
                          Request("GET", "nodes", f.lb[1].Id, ""),
                          Request("GET", "ships", 0, "") >>
            /\ MutatingCalls(f.log) = <<>>
            /\ Members(f.call.name) = f.m0

\* A no-op Update of a load balancer with two members.
C25_Witness ==
    \E f \in Frames :
        /\ NoOpUpdate(f)
        /\ Cardinality(f.m0) = 2
        /\ Len(f.log) = 3

\* The steps of UpdateTCPLoadBalancer that come before the two range loops.
ValidateSteps == {"U_lookup", "U_nodes", "U_resolve"}

\* C26 (Update validates before it mutates): an Update that returned an error
\* from the load-balancer lookup, the member listing or the resolution of the
\* wanted hosts has issued GETs only, and the membership is what it was when
\* the Update began; an Update given a host name without instance never
\* issues a POST or DELETE, and returns an error from one of these steps.
C26_UpdateValidatesBeforeMutating ==
    \A f \in Frames :
        f.call.op = "Update" =>
            /\ FailedAtLastCall(f) /\ f.at \in ValidateSteps =>
                   /\ MutatingCalls(f.log) = <<>>
                   /\ Len(f.log) <= 3
                   /\ Members(f.call.name) = f.m0
            /\ ~AllResolve(f.call.hosts) =>
                   /\ MutatingCalls(f.log) = <<>>
                   /\ Members(f.call.name) = f.m0
                   /\ f.pc = "done" => f.err # NoErr /\ f.at \in ValidateSteps

\* An Update of a load balancer with members, given one host with an
\* instance and one without: it returned the lookup error of the second.
C26_Witness ==
    \E f \in Frames :
        /\ Finished(f, "Update") /\ ~f.faulted /\ f.at = "U_resolve"
        /\ f.call.hosts = <<"h3", "hx">>
        /\ f.err = CouldNotFindInstanceError("hx")
        /\ f.m0 # {} /\ "ip3" \notin f.m0
        /\ Members(f.call.name) = f.m0

\* C27 (create before resolve): an Ensure that created the load balancer and
\* was given a host name without instance registers no member and never
\* reaches the registration: the load balancer it created is in the remote
\* system with no member, and once it has returned, it returned an error from
\* the resolution, with no status, after the GET of the lookup, the POST of
\* the creation and the GET of the instance listing (no DELETE undoes the
\* creation).
C27_CreateBeforeResolve ==
    \A f \in Frames :
        f.call.op = "Ensure" /\ f.created /\ ~AllResolve(f.call.hosts) =>
            /\ f.pc \in {"C_resolve", "done"}
            /\ Registered(f.log) = <<>>
            /\ LbsNamed(f.call.name) = {f.lb[1].Id}
            /\ Members(f.call.name) = {}
            /\ f.pc = "done" =>
                   /\ f.err # NoErr /\ f.at = "C_resolve" /\ f.status = <<>>
                   /\ f.log = << Request("GET", "load_balancers", 0, ""),
                                 Request("POST", "load_balancers", 0, f.call.name),
                                 Request("GET", "ships", 0, "") >>

\* An Ensure given one host with an instance and one without: the load
\* balancer is created, the second name is not found.
C27_Witness ==
    \E f \in Frames :
        /\ Finished(f, "Ensure") /\ f.created /\ ~f.faulted /\ ~f.existed0
        /\ f.call.hosts = <<"h1", "hx">>
        /\ f.err = CouldNotFindInstanceError("hx")
        /\ LbsNamed(f.call.name) # {} /\ Members(f.call.name) = {}

\* C28 (bounded partial states): at every state of an Update, from the
\* membership M the load balancer had when it began towards the addresses D
\* of the wanted hosts, and after it returned with or without error, the
\* membership S satisfies (M \cap D) \subseteq S \subseteq (M \cup D); every
\* address it posted is in D and every address it deleted is in M \ D.
C28_BoundedPartialStates ==
    \A f \in Frames :
        f.call.op = "Update" =>
            LET M == f.m0
                D == AddressesOf(f.call.hosts)
                S == Members(f.call.name)
            IN  /\ (M \cap D) \subseteq S
                /\ S \subseteq (M \cup D)
                /\ Range(Registered(f.log)) \subseteq D
                /\ Range(Deregistered(f.log)) \subseteq (M \ D)

\* An Update aborted by a failing POST after it removed one member: the
\* membership is strictly between M \cap D and M \cup D.
C28_Witness ==
    \E f \in Frames :
        /\ Finished(f, "Update") /\ f.at = "R_post" /\ f.err # NoErr
        /\ Deregistered(f.log) # <<>>
        /\ LET M == f.m0
               D == AddressesOf(f.call.hosts)
               S == Members(f.call.name)
           IN  /\ M \cap D # {} /\ S = M \cap D
               /\ S # M /\ S # D

\* C30 (each address registered once on the create path): an Ensure that
\* created the load balancer and returned nil with no fault met has posted
\* every address of its hosts exactly once: the addresses of its member POSTs
\* are those of the hosts, none of them twice.
C30_CreateRegistersEachAddressOnce ==
    \A f \in Frames :
        Finished(f, "Ensure") /\ f.created /\ Clean(f) =>
            /\ Range(Registered(f.log)) = AddressesOf(f.call.hosts)
            /\ NoDuplicates(Registered(f.log))

\* C29 (Ensure always completes): an Ensure never crashes; once it has
\* stopped it has returned a status with a nil error, or an error and no
\* status, also when the load balancer its existence check found is deleted
\* by the other caller's EnsureDeleted before the second lookup by name.
C29_EnsureAlwaysCompletes ==
    \A f \in Frames :
        f.call.op = "Ensure" =>
            /\ f.pc # "panic"
            /\ f.pc = "done" => (f.err = NoErr) = (f.status # <<>>)

\* Caller c's step applies a registration of address ip with load balancer
\* id: its POST in RegisterInstancesWithLoadBalancer returns no error.
AppliedRegister(c, id, ip) ==
    /\ st[c].pc = "R_post" /\ st'[c] # st[c]
    /\ st[c].lb[1].Id = id /\ Head(st[c].nodesToAdd) = ip
    /\ ~(st'[c].pc = "done" /\ st'[c].err # NoErr)
\* Caller c's step applies a deregistration of address ip from load balancer
\* id: its DELETE in DeregisterInstancesFromLoadBalancer returns no error.
AppliedDeregister(c, id, ip) ==
    /\ st[c].pc = "D_delete" /\ st'[c] # st[c]
    /\ st[c].lb[1].Id = id /\ Head(st[c].nodesToRemove) = ip
    /\ ~(st'[c].pc = "done" /\ st'[c].err # NoErr)

\* Two Updates of a load balancer that existed when each began do not crash,
\* and an Update makes at most three reads and two calls per address.
RacingUpdatesComplete ==
    /\ \A c, d \in Callers :
           (c # d /\ st[c].call.op = "Update" /\ st[d].call.op = "Update"
                  /\ st[c].existed0 /\ st[d].existed0) => st[c].pc # "panic"
    /\ \A f \in Frames :
           f.call.op = "Update" => Len(f.log) <= 3 + 2 * Cardinality(IPs)

\* C21 (race of concurrent Updates on one name): with the two callers'
\* operations interleaved on the same load balancer, every step leaves each
\* address as the register or deregister applied in that step sets it
\* (registered: present, deregistered: absent) and changes the presence of no
\* other address of a load balancer that is neither created nor deleted in
\* the step, so the final presence of an address is the one set by the last
\* register or deregister applied to it; and two racing Updates both come to
\* an end.
C21_LastWriterWinsPerAddress ==
    [][ /\ \A id \in LBIds, ip \in IPs :
              LET reg == \E c \in Callers : AppliedRegister(c, id, ip)
                  dereg == \E c \in Callers : AppliedDeregister(c, id, ip)
              IN  /\ reg => ip \in nodes'[id]
                  /\ dereg => ip \notin nodes'[id]
                  /\ (~reg /\ ~dereg /\ lbs'[id] = lbs[id]) =>
                         ((ip \in nodes'[id]) = (ip \in nodes[id]))
        /\ \A id \in LBIds : nodes'[id] \subseteq IPs
        /\ RacingUpdatesComplete' ]_vars

\* Two Updates that both began with the one member "ip1" and ran into each
\* other: each added its own address, neither removed the other's, and both
\* returned nil; the membership is that of neither host list.
C21_Witness ==
    LET f == st["c1"]
        g == st["c2"]
    IN  /\ Finished(f, "Update") /\ f.err = NoErr
        /\ Finished(g, "Update") /\ g.err = NoErr
        /\ f.m0 = {"ip1"} /\ g.m0 = {"ip1"}
        /\ f.call.hosts = <<"h1", "h2">> /\ g.call.hosts = <<"h1", "h3">>
        /\ Registered(f.log) = <<"ip2">> /\ Registered(g.log) = <<"ip3">>
        /\ Deregistered(f.log) = <<>> /\ Deregistered(g.log) = <<>>
        /\ Members("lbA") = {"ip1", "ip2", "ip3"}

====
